---- MODULE Spec2Model ----
(***************************************************************************)
(* Model of the tree rebuilding / capturing engine of src/src/builder.py   *)
(* and of the action log of src/src/construction_database.py.              *)
(*                                                                         *)
(* Every Python value is one record shape [kind, type, val, flds]:         *)
(*   kind = "lit"  : a literal (type "None" or "int", val its value)       *)
(*   kind = "list" : a Python list, flds its elements                      *)
(*   kind = "node" : an ast node of class `type`, flds its field values    *)
(*                   in the order of the class's _fields                   *)
(*   kind = "field": a child of an astroid node together with the name of  *)
(*                   the field holding it (type the name, flds the child)  *)
(* A node object's identity is its path from the root of the input tree    *)
(* (the positions taken in the child iterators on the way down).           *)
(***************************************************************************)
EXTENDS Integers, Sequences, FiniteSets, TLC

\* ---- bounds of the model ----
MaxNodes == 5

MaxPlaces == 3

MaxEntries == 4

MaxAstNodes == 2

MaxLinked == 3

MaxOverlapNodes == 3

\* ------------------------------------------------------------------------
\* Python values
\* ------------------------------------------------------------------------
NoneV == [kind |-> "lit", type |-> "None", val |-> 0, flds |-> <<>>]

Lit(n) == [kind |-> "lit", type |-> "int", val |-> n, flds |-> <<>>]

ListV(s) == [kind |-> "list", type |-> "list", val |-> 0, flds |-> s]

Node(t, fs) == [kind |-> "node", type |-> t, val |-> 0, flds |-> fs]

\* isinstance(v, ast.AST)
IsAST(v) == v.kind = "node"

\* isinstance(v, list)
IsPyList(v) == v.kind = "list"

\* literal values used as inputs: 0 is falsy, 1 is truthy
LitVals == {0, 1}

Lits == {Lit(n) : n \in LitVals}

LitOrNone == Lits \cup {NoneV}

\* ------------------------------------------------------------------------
\* The autogenerated builder classes: declared fields and initial slots
\* ------------------------------------------------------------------------
\* StackSupportNode.registry after all subclasses are declared
Registry == {"Module", "Assign", "Global", "Tuple", "Name", "Constant", "Load", "Store"}

\* the `fields` tuple of the builder class registered for a node type
Fields(t) ==
  CASE t = "Module"   -> <<"body", "type_ignores">>
    [] t = "Assign"   -> <<"targets", "value", "type_comment">>
    [] t = "Global"   -> <<"names">>
    [] t = "Tuple"    -> <<"elts", "ctx">>
    [] t = "Name"     -> <<"id", "ctx">>
    [] t = "Constant" -> <<"value", "kind">>
    [] OTHER          -> <<>>

\* the fields the builder's __init__ starts as [] (the others start as None)
ListFields(t) ==
  CASE t = "Module"   -> {"body", "type_ignores"}
    [] t = "Assign"   -> {"targets"}
    [] t = "Global"   -> {"names"}
    [] t = "Tuple"    -> {"elts"}
    [] OTHER          -> {}

\* the fields whose entry in the builder's `annotations` tuple admits None
OptionalFields(t) ==
  CASE t = "Assign"   -> {"type_comment"}
    [] t = "Constant" -> {"value", "kind"}
    [] OTHER          -> {}

\* ------------------------------------------------------------------------
\* Well-formed input trees, by number of nodes
\* ------------------------------------------------------------------------
Load == Node("Load", <<>>)

\* an ast.TypeIgnore: a node class with no builder class
TypeIgnore == Node("TypeIgnore", <<>>)

Store == Node("Store", <<>>)

Constant(v) == Node("Constant", <<v, NoneV>>)

Name(i, c) == Node("Name", <<i, c>>)

Tuple(s) == Node("Tuple", <<ListV(s), Load>>)

Assign(ts, v, tc) == Node("Assign", <<ListV(ts), v, tc>>)

Global(ns) == Node("Global", <<ListV(ns)>>)

Module(b) == Node("Module", <<ListV(b), ListV(<<>>)>>)

RECURSIVE ExprsOfSize(_), ExprSeqsOfSize(_)
ExprsOfSize(n) ==
  (IF n = 1 THEN {Constant(v) : v \in LitOrNone} ELSE {})
  \cup (IF n = 2 THEN {Name(i, c) : i \in Lits, c \in {Load, Store}} ELSE {})
  \cup (IF n >= 2 THEN {Tuple(s) : s \in ExprSeqsOfSize(n - 2)} ELSE {})

ExprSeqsOfSize(n) ==
  IF n = 0 THEN {<<>>}
  ELSE UNION {{<<e>> \o s : e \in ExprsOfSize(k), s \in ExprSeqsOfSize(n - k)} : k \in 1..n}

RECURSIVE LitSeqsOfLen(_)
LitSeqsOfLen(n) ==
  IF n = 0 THEN {<<>>} ELSE {<<l>> \o s : l \in Lits, s \in LitSeqsOfLen(n - 1)}

StmtsOfSize(n) ==
  (IF n >= 2
   THEN UNION {{Assign(ts, v, NoneV) : ts \in ExprSeqsOfSize(n - 1 - k), v \in ExprsOfSize(k)}
               : k \in 1..(n - 1)}
   ELSE {})
  \cup (IF n >= 1 THEN {Global(ns) : ns \in LitSeqsOfLen(n - 1)} ELSE {})

RECURSIVE StmtSeqsOfSize(_)
StmtSeqsOfSize(n) ==
  IF n = 0 THEN {<<>>}
  ELSE UNION {{<<e>> \o s : e \in StmtsOfSize(k), s \in StmtSeqsOfSize(n - k)} : k \in 1..n}

ModulesOfSize(n) == IF n >= 1 THEN {Module(b) : b \in StmtSeqsOfSize(n - 1)} ELSE {}

Trees == UNION {ExprsOfSize(n) \cup StmtsOfSize(n) \cup ModulesOfSize(n) : n \in 1..MaxNodes}

\* the node object found by following `path` down from `root`
RECURSIVE FlattenFrom(_, _)
RECURSIVE NodeAt(_, _)
RECURSIVE NodePathsFrom(_, _)
RECURSIVE PostOrderFrom(_, _, _)

\* ------------------------------------------------------------------------
\* StackSupportNode
\* ------------------------------------------------------------------------
\* one field of ast.iter_fields as get_child_iterator yields it
FieldChildren(fieldname, value) ==
  IF IsPyList(value)
  THEN [j \in 1..Len(value.flds) |-> [fieldname |-> fieldname, child |-> value.flds[j]]]
  ELSE <<[fieldname |-> fieldname, child |-> value]>>

FlattenFrom(node, i) ==
  IF i > Len(node.flds) THEN <<>>
  ELSE FieldChildren(Fields(node.type)[i], node.flds[i]) \o FlattenFrom(node, i + 1)

\* StackSupportNode.get_child_iterator: the whole sequence the generator yields
ChildIterator(node) == FlattenFrom(node, 1)

NodeAt(root, path) ==
  IF path = <<>> THEN root
  ELSE NodeAt(ChildIterator(root)[Head(path)].child, Tail(path))

\* the paths of all ast nodes at or below the node at `path`
NodePathsFrom(node, path) ==
  {path} \cup UNION {IF IsAST(ChildIterator(node)[j].child)
                     THEN NodePathsFrom(ChildIterator(node)[j].child, Append(path, j))
                     ELSE {} : j \in 1..Len(ChildIterator(node))}

NodePaths(root) == NodePathsFrom(root, <<>>)

\* the node paths below `path` from child position j on, each after its descendants
PostOrderFrom(node, path, j) ==
  IF j > Len(ChildIterator(node)) THEN <<>>
  ELSE (IF IsAST(ChildIterator(node)[j].child)
        THEN PostOrderFrom(ChildIterator(node)[j].child, Append(path, j), 1)
             \o <<Append(path, j)>>
        ELSE <<>>)
       \o PostOrderFrom(node, path, j + 1)

\* all nodes below the root in post-order, and the same with the root at the end
PostOrderBelowRoot(root) == PostOrderFrom(root, <<>>, 1)

PostOrder(root) == PostOrderBelowRoot(root) \o << <<>> >>

IsPrefix(p, q) == Len(p) <= Len(q) /\ SubSeq(q, 1, Len(p)) = p

FieldIndex(t, fieldname) == CHOOSE i \in 1..Len(Fields(t)) : Fields(t)[i] = fieldname

\* the slots a builder's __init__ creates
InitSlots(t) ==
  [i \in 1..Len(Fields(t)) |-> IF Fields(t)[i] \in ListFields(t) THEN ListV(<<>>) ELSE NoneV]

\* StackSupportNode(): the parentless root context, whose node is None
RootContext == [node |-> NoneV, path |-> <<>>, parent |-> 0, slots |-> <<>>]

PushDetached(self, node, path) ==
  IF node.type \in Registry
  THEN [err |-> "", ctx |-> [node |-> node, path |-> path, parent |-> 1,
                             slots |-> InitSlots(node.type)]]
  ELSE [err |-> "KeyError", ctx |-> RootContext]

PushUnchecked(self, node, path) ==
  [err |-> "", ctx |-> [node |-> node, path |-> path, parent |-> self,
                        slots |-> InitSlots(node.type)]]

\* StackSupportNode.push: registry lookup by the node's class, then subclass(node, self)
Push(self, node, path) ==
  IF node.type \in Registry
  THEN [err |-> "", ctx |-> [node |-> node, path |-> path, parent |-> self,
                             slots |-> InitSlots(node.type)]]
  ELSE [err |-> "KeyError", ctx |-> RootContext]

AllocateInterned(cs, ctx) ==
  IF \E c \in 1..Len(cs) : cs[c].node = ctx.node /\ cs[c].path = ctx.path
  THEN [ctxs |-> cs,
        index |-> CHOOSE c \in 1..Len(cs) : cs[c].node = ctx.node /\ cs[c].path = ctx.path]
  ELSE [ctxs |-> Append(cs, ctx), index |-> Len(cs) + 1]

\* subclass(node, self): the call makes a new object, whatever contexts there
\* are already
Allocate(cs, ctx) == [ctxs |-> Append(cs, ctx), index |-> Len(cs) + 1]

PlacePrepend(ctx, fieldname, value) ==
  LET i == FieldIndex(ctx.node.type, fieldname)
      slot == ctx.slots[i]
  IN IF IsPyList(slot)
     THEN [err |-> "", ctx |-> [ctx EXCEPT !.slots[i] = ListV(<<value>> \o slot.flds)]]
     ELSE IF slot # NoneV THEN [err |-> "AssertionError", ctx |-> ctx]
     ELSE [err |-> "", ctx |-> [ctx EXCEPT !.slots[i] = value]]

PlaceTruthy(ctx, fieldname, value) ==
  LET i == FieldIndex(ctx.node.type, fieldname)
      slot == ctx.slots[i]
  IN IF IsPyList(slot)
     THEN [err |-> "", ctx |-> [ctx EXCEPT !.slots[i] = ListV(Append(slot.flds, value))]]
     ELSE IF slot \notin {NoneV, Lit(0)} THEN [err |-> "AssertionError", ctx |-> ctx]
     ELSE [err |-> "", ctx |-> [ctx EXCEPT !.slots[i] = value]]

PlaceReplace(ctx, fieldname, value) ==
  LET i == FieldIndex(ctx.node.type, fieldname)
      slot == ctx.slots[i]
  IN IF IsPyList(slot)
     THEN [err |-> "", ctx |-> [ctx EXCEPT !.slots[i] = ListV(<<value>>)]]
     ELSE IF slot # NoneV THEN [err |-> "AssertionError", ctx |-> ctx]
     ELSE [err |-> "", ctx |-> [ctx EXCEPT !.slots[i] = value]]

PlaceOntoNode(ctx, fieldname, value) ==
  LET i == FieldIndex(ctx.node.type, fieldname)
      slot == ctx.slots[i]
      held == ctx.node.flds[i]
  IN IF IsPyList(slot)
     THEN [err |-> "", ctx |-> [ctx EXCEPT !.slots[i] = ListV(Append(slot.flds, value)),
                                           !.node.flds[i] = ListV(Append(held.flds, value))]]
     ELSE IF slot # NoneV THEN [err |-> "AssertionError", ctx |-> ctx]
     ELSE [err |-> "", ctx |-> [ctx EXCEPT !.slots[i] = value, !.node.flds[i] = value]]

\* StackSupportNode.place
Place(ctx, fieldname, value) ==
  LET i == FieldIndex(ctx.node.type, fieldname)
      slot == ctx.slots[i]
  IN IF IsPyList(slot)
     THEN [err |-> "", ctx |-> [ctx EXCEPT !.slots[i] = ListV(Append(slot.flds, value))]]
     ELSE IF slot # NoneV THEN [err |-> "AssertionError", ctx |-> ctx]
     ELSE [err |-> "", ctx |-> [ctx EXCEPT !.slots[i] = value]]

\* StackSupportNode.get_pos for the node object at path `target`. The lookup is by
\* identity in the child iterator; for a slot that is a list the index is then
\* taken with list.index(child) on the slot, where ast nodes compare by identity
\* and every node was made by construct(), so none of them is the child looked for.
\* index -1 stands for None.
GetPos(ctx, target) ==
  LET items == ChildIterator(ctx.node)
      hits == {j \in 1..Len(items) : IsAST(items[j].child) /\ Append(ctx.path, j) = target}
  IN IF hits = {} THEN [err |-> "KeyError", fieldname |-> "", index |-> -1]
     ELSE LET final_field_name == items[CHOOSE j \in hits : TRUE].fieldname
              slot == ctx.slots[FieldIndex(ctx.node.type, final_field_name)]
          IN IF IsPyList(slot)
             THEN [err |-> "ValueError", fieldname |-> "", index |-> -1]
             ELSE [err |-> "", fieldname |-> final_field_name, index |-> -1]

RECURSIVE AncestorIterator(_, _)
\* StackSupportNode.get_ancestor_iterator: self, then every parent up to the one
\* that has none
AncestorIterator(cs, self) ==
  IF cs[self].parent = 0 THEN <<self>>
  ELSE <<self>> \o AncestorIterator(cs, cs[self].parent)

Reverse(sq) == [k \in 1..Len(sq) |-> sq[Len(sq) + 1 - k]]

RECURSIVE ReverseIterator(_, _)
ReverseIteratorForward(cs, self) ==
  IF cs[self].parent = 0 THEN [err |-> "AttributeError", items |-> <<>>]
  ELSE IF cs[cs[self].parent].node = NoneV THEN [err |-> "", items |-> <<>>]
  ELSE LET parent == cs[self].parent
           kids == ChildIterator(cs[parent].node)
           own == CHOOSE j \in 1..Len(kids) : Append(cs[parent].path, j) = cs[self].path
           nodes == [j \in 1..(own - 1) |->
                       [context |-> parent, pos |-> j, child |-> kids[j].child]]
           outer == ReverseIterator(cs, parent)
       IN [err |-> outer.err, items |-> nodes \o outer.items]

\* StackSupportNode.get_reverse_iterator of the context cs[self]: the items it
\* yields, each the parent context with one of its children (pos: the child's
\* position in the parent's child iterator), and the exception that ends it
ReverseIterator(cs, self) ==
  IF cs[self].parent = 0 THEN [err |-> "AttributeError", items |-> <<>>]
  ELSE IF cs[cs[self].parent].node = NoneV THEN [err |-> "", items |-> <<>>]
  ELSE LET parent == cs[self].parent
           kids == ChildIterator(cs[parent].node)
           own == CHOOSE j \in 1..Len(kids) : Append(cs[parent].path, j) = cs[self].path
           nodes == [j \in 1..(own - 1) |->
                       [context |-> parent, pos |-> j, child |-> kids[j].child]]
           outer == ReverseIterator(cs, parent)
       IN [err |-> outer.err, items |-> Reverse(nodes) \o outer.items]

\* <Type>BuilderNode.construct (and pop): a new node from the slots, in field order
Construct(ctx) == Node(ctx.node.type, ctx.slots)

AfterConstructCleared(ctx) == [ctx EXCEPT !.slots = InitSlots(ctx.node.type)]

\* the context once construct() has returned: construct reads the slots and
\* assigns nothing
AfterConstruct(ctx) == ctx

\* ------------------------------------------------------------------------
\* Transformers handed to rebuild by its callers
\* ------------------------------------------------------------------------
Transformers == {"identity", "zero"}

\* "identity": return the context untouched; "zero": overwrite the value slot of
\* every Constant with the literal 0 and return the context
Transform(x, ctx, node) ==
  IF x = "zero" /\ node.type = "Constant"
  THEN [ctx EXCEPT !.slots[FieldIndex("Constant", "value")] = Lit(0)]
  ELSE ctx

\* ------------------------------------------------------------------------
\* Predicates and stop functions handed to capture by its callers
\* ------------------------------------------------------------------------
Predicates == {"any", "Constant"}

Stops == {"none", "Tuple"}

\* predicate(context, node): isinstance tests on the node
Predicate(p, ctx, node) == p = "any" \/ node.type = p

\* stop is not None and stop(context, node)
StopHit(st, ctx, node) == st # "none" /\ node.type = st

\* ------------------------------------------------------------------------
\* Values of the action log's state before anything is recorded
\* ------------------------------------------------------------------------
\* the astroid node objects a client holds before any action has run; the
\* nodes are numbered in creation order
AstNodes == {1}

NoTags == [n \in AstNodes |-> 0]

NoCall == [op |-> "", err |-> "", self |-> 0, node |-> 0, tag |-> 0, value |-> 0,
           before |-> <<>>, visited |-> <<>>, applied |-> <<>>, depth |-> 0,
           frames |-> <<>>]

VARIABLES
  tree,     \* the input tree
  xform,    \* the transformer passed to rebuild
  pred,     \* the predicate passed to capture
  stop,     \* the stop function passed to capture ("none": stop=None)
  ctxs,     \* every StackSupportNode created so far, in creation order
  context,  \* index in ctxs of the local `context`
  generator,\* how many items the local `generator` has yielded
  stack,    \* the local explicit `stack`
  pc,       \* "run", "done", or the exception that ended the call
  result,   \* the value rebuild returned
  calls,    \* instrumentation: the transformer invocations, in order, each with
            \* the context before and after the two construct() calls around it,
            \* the nodes those calls returned, and what
            \* context.parent.get_pos(context.node), context.get_pos(context.node)
            \* and context.get_reverse_iterator() give the transformer, and what
            \* get_reverse_iterator() gives it on each context that
            \* context.get_ancestor_iterator() yields
  other,    \* the locals and the yields of the capture iterations a client steps
            \* while the call above is under way, one record for each
  yielded,  \* the (context, node) pairs capture has yielded, in order, each with
            \* what context.get_pos(node) gives the consumer
  finished, \* instrumentation: the nodes capture popped off its stack, in order
  places,   \* instrumentation: the place calls made on a context by its client
  pushes,   \* instrumentation: the push calls made on a context by its client
  log,      \* the action log's entries (DoubleLinkedList objects), by creation order
  created,  \* the _created attribute of each astroid node there is (0: no such
            \* attribute)
  outcome,  \* the outcome of the last call made on the action log
  kept      \* instrumentation: the entries the last revert was to keep, and those
            \* appended to them since (<<>> before any revert)

inputVars == <<tree, xform, pred, stop>>

rebuildVars == <<result, calls>>

captureVars == <<yielded, finished, other>>

placeVars == <<places, pushes>>

logVars == <<log, created, outcome, kept>>

travVars == <<ctxs, context, generator, stack, pc>>

vars == <<tree, xform, pred, stop, ctxs, context, generator, stack, pc, result, calls,
          yielded, finished, other, places, pushes, log, created, outcome,
          kept>>

\* ------------------------------------------------------------------------
\* rebuild
\* ------------------------------------------------------------------------
\* the state after lines 176-180
Init ==
  /\ tree \in Trees
  /\ xform \in Transformers
  /\ pred = "any"
  /\ stop = "none"
  /\ yielded = <<>>
  /\ finished = <<>>
  /\ other = <<>>
  /\ places = <<>>
  /\ pushes = <<>>
  /\ log = <<>>
  /\ created = NoTags
  /\ outcome = NoCall
  /\ kept = <<>>
  /\ ctxs = <<RootContext, Push(1, tree, <<>>).ctx>>
  /\ context = 2
  /\ generator = 0
  /\ stack = <<>>
  /\ pc = "run"
  /\ result = NoneV
  /\ calls = <<>>

Items == ChildIterator(ctxs[context].node)

NodeUpdateProvisional(x, ctx) == Construct(ctx)

\* lines 194-196: the provisional node, the transformer, the final node
NodeUpdate(x, ctx) == Construct(Transform(x, AfterConstruct(ctx), Construct(ctx)))

\* next(generator) gives a node: save the frame and descend
RebuildDescend ==
  /\ pc = "run"
  /\ generator < Len(Items)
  /\ IsAST(Items[generator + 1].child)
  /\ LET item == Items[generator + 1]
         pushed == Push(context, item.child, Append(ctxs[context].path, generator + 1))
     IN IF pushed.err # ""
        THEN /\ pc' = pushed.err
             /\ UNCHANGED <<ctxs, context, generator, stack>>
        ELSE /\ stack' = Append(stack, [fieldname |-> item.fieldname,
                                        child |-> pushed.ctx.path,
                                        generator |-> generator + 1,
                                        context |-> context])
             /\ ctxs' = Allocate(ctxs, pushed.ctx).ctxs
             /\ context' = Allocate(ctxs, pushed.ctx).index
             /\ generator' = 0
             /\ pc' = pc
  /\ UNCHANGED <<inputVars, rebuildVars, captureVars>>
  /\ UNCHANGED <<placeVars, logVars>>

\* next(generator) gives a literal: place it on the current context
RebuildPlaceLiteral ==
  /\ pc = "run"
  /\ generator < Len(Items)
  /\ ~IsAST(Items[generator + 1].child)
  /\ LET item == Items[generator + 1]
         placed == Place(ctxs[context], item.fieldname, item.child)
     IN /\ ctxs' = [ctxs EXCEPT ![context] = placed.ctx]
        /\ pc' = IF placed.err # "" THEN placed.err ELSE pc
  /\ generator' = generator + 1
  /\ UNCHANGED <<inputVars, context, stack, rebuildVars, captureVars>>
  /\ UNCHANGED <<placeVars, logVars>>

\* StopIteration with a frame on the stack: finish the node, ascend
RebuildFinish ==
  /\ pc = "run"
  /\ generator = Len(Items)
  /\ Len(stack) > 0
  /\ LET frame == stack[Len(stack)]
         node == Construct(ctxs[context])
         ret == Transform(xform, AfterConstruct(ctxs[context]), node)
         node_update == NodeUpdate(xform, ctxs[context])
         placed == Place(ctxs[frame.context], frame.fieldname, node_update)
     IN /\ calls' = Append(calls, [path |-> ctxs[context].path,
                                   before |-> ctxs[context], node |-> node,
                                   ctx |-> AfterConstruct(ctxs[context]),
                                   ret |-> ret, node_update |-> node_update,
                                   after |-> AfterConstruct(ret),
                                   pos |-> GetPos(ctxs[frame.context], ctxs[context].path),
                                   nopos |-> GetPos(ctxs[context], ctxs[context].path),
                                   rev |-> ReverseIterator(ctxs, context),
                                   upward |-> [j \in 1..Len(AncestorIterator(ctxs, context)) |->
                                     ReverseIterator(ctxs, AncestorIterator(ctxs, context)[j])]])
        /\ ctxs' = [ctxs EXCEPT ![context] = AfterConstruct(ret),
                                ![frame.context] = placed.ctx]
        /\ context' = frame.context
        /\ generator' = frame.generator
        /\ pc' = IF placed.err # "" THEN placed.err ELSE pc
  /\ stack' = SubSeq(stack, 1, Len(stack) - 1)
  /\ UNCHANGED <<inputVars, result, captureVars>>
  /\ UNCHANGED <<placeVars, logVars>>

\* StopIteration with an empty stack: break, return context.pop()
RebuildReturn ==
  /\ pc = "run"
  /\ generator = Len(Items)
  /\ Len(stack) = 0
  /\ result' = Construct(ctxs[context])
  /\ ctxs' = [ctxs EXCEPT ![context] = AfterConstruct(ctxs[context])]
  /\ pc' = "done"
  /\ UNCHANGED <<inputVars, context, generator, stack, calls, captureVars>>
  /\ UNCHANGED <<placeVars, logVars>>

Next == RebuildDescend \/ RebuildPlaceLiteral \/ RebuildFinish \/ RebuildReturn

Spec == Init /\ [][Next]_vars

\* ------------------------------------------------------------------------
\* capture
\* ------------------------------------------------------------------------
\* the state after lines 219-223
InitCapture ==
  /\ tree \in Trees
  /\ pred \in Predicates
  /\ stop \in Stops
  /\ xform = "identity"
  /\ ctxs = <<RootContext, Push(1, tree, <<>>).ctx>>
  /\ context = 2
  /\ generator = 0
  /\ stack = <<>>
  /\ pc = "run"
  /\ result = NoneV
  /\ calls = <<>>
  /\ yielded = <<>>
  /\ finished = <<>>
  /\ other = <<>>
  /\ places = <<>>
  /\ pushes = <<>>
  /\ log = <<>>
  /\ created = NoTags
  /\ outcome = NoCall
  /\ kept = <<>>

FinishOutcomeYieldFirst(st, p, ctx, child) ==
  [halt |-> StopHit(st, ctx, child), yield |-> Predicate(p, ctx, child)]

FinishOutcomeContinue(st, p, ctx, child) ==
  [halt |-> FALSE, yield |-> ~StopHit(st, ctx, child) /\ Predicate(p, ctx, child)]

\* lines 235-238: what happens to a node popped off the stack
FinishOutcome(st, p, ctx, child) ==
  IF StopHit(st, ctx, child) THEN [halt |-> TRUE, yield |-> FALSE]
  ELSE [halt |-> FALSE, yield |-> Predicate(p, ctx, child)]

\* next(generator) gives a node: save the frame and descend
CaptureDescend ==
  /\ pc = "run"
  /\ generator < Len(Items)
  /\ IsAST(Items[generator + 1].child)
  /\ LET item == Items[generator + 1]
         pushed == Push(context, item.child, Append(ctxs[context].path, generator + 1))
     IN IF pushed.err # ""
        THEN /\ pc' = pushed.err
             /\ UNCHANGED <<ctxs, context, generator, stack>>
        ELSE /\ stack' = Append(stack, [fieldname |-> item.fieldname,
                                        child |-> pushed.ctx.path,
                                        generator |-> generator + 1,
                                        context |-> context])
             /\ ctxs' = Allocate(ctxs, pushed.ctx).ctxs
             /\ context' = Allocate(ctxs, pushed.ctx).index
             /\ generator' = 0
             /\ pc' = pc
  /\ UNCHANGED <<inputVars, rebuildVars, captureVars>>
  /\ UNCHANGED <<placeVars, logVars>>

\* next(generator) gives a literal: nothing to do
CaptureSkipLiteral ==
  /\ pc = "run"
  /\ generator < Len(Items)
  /\ ~IsAST(Items[generator + 1].child)
  /\ generator' = generator + 1
  /\ UNCHANGED <<inputVars, ctxs, context, stack, pc, rebuildVars, captureVars>>
  /\ UNCHANGED <<placeVars, logVars>>

\* StopIteration with a frame on the stack: pop it, test stop, then the predicate
CaptureFinish ==
  /\ pc = "run"
  /\ generator = Len(Items)
  /\ Len(stack) > 0
  /\ LET frame == stack[Len(stack)]
         out == FinishOutcome(stop, pred, ctxs[frame.context], NodeAt(tree, frame.child))
     IN /\ context' = frame.context
        /\ generator' = frame.generator
        /\ finished' = Append(finished, frame.child)
        /\ pc' = IF out.halt THEN "done" ELSE pc
        /\ yielded' = IF out.yield
                      THEN Append(yielded, [context |-> frame.context, child |-> frame.child,
                                            pos |-> GetPos(ctxs[frame.context], frame.child)])
                      ELSE yielded
  /\ stack' = SubSeq(stack, 1, Len(stack) - 1)
  /\ UNCHANGED <<inputVars, ctxs, rebuildVars, other>>
  /\ UNCHANGED <<placeVars, logVars>>

\* StopIteration with an empty stack: break, the generator is exhausted
CaptureEnd ==
  /\ pc = "run"
  /\ generator = Len(Items)
  /\ Len(stack) = 0
  /\ pc' = "done"
  /\ UNCHANGED <<inputVars, ctxs, context, generator, stack, rebuildVars, captureVars>>
  /\ UNCHANGED <<placeVars, logVars>>

NextCapture == CaptureDescend \/ CaptureSkipLiteral \/ CaptureFinish \/ CaptureEnd

SpecCapture == InitCapture /\ [][NextCapture]_vars

\* ------------------------------------------------------------------------
\* Overlapping traversals: while a rebuild is under way a capture generator over
\* the same tree is stepped, in any order
\* ------------------------------------------------------------------------
OverlapTrees ==
  UNION {ExprsOfSize(n) \cup StmtsOfSize(n) \cup ModulesOfSize(n) : n \in 1..MaxOverlapNodes}

\* the arguments of the capture call that overlaps the rebuild
OtherArgs == {[pred |-> "any", stop |-> "none"], [pred |-> "Constant", stop |-> "Tuple"]}

\* the locals of a capture call after lines 219-223, its first context at ctxs[c]
OtherStart(c, p, st) ==
  [pred |-> p, stop |-> st, context |-> c, generator |-> 0, stack |-> <<>>, pc |-> "run",
   yielded |-> <<>>, finished |-> <<>>]

\* each call starts from a StackSupportNode() of its own and pushes the tree
InitOverlap ==
  /\ tree \in OverlapTrees
  /\ xform = "zero"
  /\ pred = "any"
  /\ stop = "none"
  /\ ctxs = <<RootContext, Push(1, tree, <<>>).ctx, RootContext, Push(3, tree, <<>>).ctx>>
  /\ context = 2
  /\ generator = 0
  /\ stack = <<>>
  /\ pc = "run"
  /\ result = NoneV
  /\ calls = <<>>
  /\ yielded = <<>>
  /\ finished = <<>>
  /\ other \in {<<OtherStart(4, a.pred, a.stop)>> : a \in OtherArgs}
  /\ places = <<>>
  /\ pushes = <<>>
  /\ log = <<>>
  /\ created = NoTags
  /\ outcome = NoCall
  /\ kept = <<>>

OtherItems(o) == ChildIterator(ctxs[o.context].node)

\* capture t: next(generator) gives a node: save the frame and descend
OtherDescend ==
  /\ \E t \in 1..Len(other) :
       LET o == other[t]
           item == OtherItems(o)[o.generator + 1]
           pushed == Push(o.context, item.child, Append(ctxs[o.context].path, o.generator + 1))
           made == Allocate(ctxs, pushed.ctx)
       IN /\ o.pc = "run"
          /\ o.generator < Len(OtherItems(o))
          /\ IsAST(item.child)
          /\ IF pushed.err # ""
             THEN /\ other' = [other EXCEPT ![t].pc = pushed.err]
                  /\ ctxs' = ctxs
             ELSE /\ other' = [other EXCEPT
                                 ![t].stack = Append(o.stack, [fieldname |-> item.fieldname,
                                                               child |-> pushed.ctx.path,
                                                               generator |-> o.generator + 1,
                                                               context |-> o.context]),
                                 ![t].context = made.index,
                                 ![t].generator = 0]
                  /\ ctxs' = made.ctxs
  /\ UNCHANGED <<inputVars, context, generator, stack, pc, rebuildVars, yielded, finished>>
  /\ UNCHANGED <<placeVars, logVars>>

\* capture t: next(generator) gives a literal: nothing to do
OtherSkipLiteral ==
  /\ \E t \in 1..Len(other) :
       LET o == other[t]
       IN /\ o.pc = "run"
          /\ o.generator < Len(OtherItems(o))
          /\ ~IsAST(OtherItems(o)[o.generator + 1].child)
          /\ other' = [other EXCEPT ![t].generator = o.generator + 1]
  /\ UNCHANGED <<inputVars, travVars, rebuildVars, yielded, finished>>
  /\ UNCHANGED <<placeVars, logVars>>

\* capture t: StopIteration with a frame on the stack: pop it, test stop, then
\* the predicate
OtherFinish ==
  /\ \E t \in 1..Len(other) :
       LET o == other[t]
           frame == o.stack[Len(o.stack)]
           out == FinishOutcome(o.stop, o.pred, ctxs[frame.context], NodeAt(tree, frame.child))
       IN /\ o.pc = "run"
          /\ o.generator = Len(OtherItems(o))
          /\ Len(o.stack) > 0
          /\ other' = [other EXCEPT
                         ![t].context = frame.context,
                         ![t].generator = frame.generator,
                         ![t].finished = Append(o.finished, frame.child),
                         ![t].pc = IF out.halt THEN "done" ELSE o.pc,
                         ![t].yielded = IF out.yield
                                        THEN Append(o.yielded,
                                                    [context |-> frame.context,
                                                     child |-> frame.child,
                                                     pos |-> GetPos(ctxs[frame.context],
                                                                    frame.child)])
                                        ELSE o.yielded,
                         ![t].stack = SubSeq(o.stack, 1, Len(o.stack) - 1)]
  /\ UNCHANGED <<inputVars, travVars, rebuildVars, yielded, finished>>
  /\ UNCHANGED <<placeVars, logVars>>

\* capture t: StopIteration with an empty stack: break, the generator is exhausted
OtherEnd ==
  /\ \E t \in 1..Len(other) :
       LET o == other[t]
       IN /\ o.pc = "run"
          /\ o.generator = Len(OtherItems(o))
          /\ Len(o.stack) = 0
          /\ other' = [other EXCEPT ![t].pc = "done"]
  /\ UNCHANGED <<inputVars, travVars, rebuildVars, yielded, finished>>
  /\ UNCHANGED <<placeVars, logVars>>

NextOverlap ==
  \/ RebuildDescend \/ RebuildPlaceLiteral \/ RebuildFinish \/ RebuildReturn
  \/ OtherDescend \/ OtherSkipLiteral \/ OtherFinish \/ OtherEnd

SpecOverlap == InitOverlap /\ [][NextOverlap]_vars

\* ------------------------------------------------------------------------
\* A client driving one context: place and construct calls in any order
\* ------------------------------------------------------------------------
\* the nodes whose context the client works on
PlaceNodes == {Assign(<<>>, Constant(NoneV), NoneV), Constant(Lit(1)), Global(<<>>)}

\* the values a client places: None, a falsy and a truthy literal, a list, a node
PlaceVals == LitOrNone \cup {ListV(<<>>), Load}

\* the state after root.push(node)
InitPlace ==
  /\ tree \in PlaceNodes
  /\ xform = "identity"
  /\ pred = "any"
  /\ stop = "none"
  /\ ctxs = <<RootContext, Push(1, tree, <<>>).ctx>>
  /\ context = 2
  /\ generator = 0
  /\ stack = <<>>
  /\ pc = "run"
  /\ result = NoneV
  /\ calls = <<>>
  /\ yielded = <<>>
  /\ finished = <<>>
  /\ other = <<>>
  /\ places = <<>>
  /\ pushes = <<>>
  /\ log = <<>>
  /\ created = NoTags
  /\ outcome = NoCall
  /\ kept = <<>>

\* a node built earlier holds the very list objects of the slots: it sees appends
Aliased(node, slots) ==
  IF node.kind = "node"
  THEN [node EXCEPT !.flds = [i \in 1..Len(node.flds) |->
                                IF IsPyList(node.flds[i]) THEN slots[i] ELSE node.flds[i]]]
  ELSE node

\* context.place(fieldname, value), the exception caught by the client
ClientPlace ==
  /\ Len(places) + Len(pushes) < MaxPlaces
  /\ \E i \in 1..Len(Fields(tree.type)), v \in PlaceVals :
       LET after == Place(ctxs[context], Fields(tree.type)[i], v)
       IN /\ ctxs' = [ctxs EXCEPT ![context] = after.ctx]
          /\ places' = Append(places, [fieldname |-> Fields(tree.type)[i], value |-> v,
                                       before |-> ctxs[context].slots[i],
                                       err |-> after.err])
          /\ result' = Aliased(result, after.ctx.slots)
  /\ UNCHANGED <<inputVars, context, generator, stack, pc, calls, captureVars, logVars>>
  /\ UNCHANGED pushes

\* context.construct()
ClientConstruct ==
  /\ result' = Construct(ctxs[context])
  /\ ctxs' = [ctxs EXCEPT ![context] = AfterConstruct(ctxs[context])]
  /\ UNCHANGED <<inputVars, context, generator, stack, pc, calls, captureVars>>
  /\ UNCHANGED <<placeVars, logVars>>

\* the nodes a client pushes: the children of the context's node, and two nodes
\* that are no part of the tree (path <<0>>: no position in any child iterator),
\* one of them of a class no builder is declared for
PushTargets ==
  {[node |-> ChildIterator(tree)[j].child, path |-> <<j>>] :
     j \in {k \in 1..Len(ChildIterator(tree)) : IsAST(ChildIterator(tree)[k].child)}}
  \cup {[node |-> Load, path |-> <<0>>], [node |-> TypeIgnore, path |-> <<0>>]}

\* context.push(node), the exception caught by the client; the client keeps the
\* context returned (ctx: its index in ctxs, 0 when push raised)
ClientPush ==
  /\ Len(places) + Len(pushes) < MaxPlaces
  /\ \E t \in PushTargets :
       LET pushed == Push(context, t.node, t.path)
       IN /\ ctxs' = IF pushed.err = "" THEN Append(ctxs, pushed.ctx) ELSE ctxs
          /\ pushes' = Append(pushes, [type |-> t.node.type, err |-> pushed.err,
                                       ctx |-> IF pushed.err = "" THEN Len(ctxs) + 1 ELSE 0])
  /\ UNCHANGED <<inputVars, context, generator, stack, pc, rebuildVars, captureVars>>
  /\ UNCHANGED <<places, logVars>>

NextPlace == ClientPlace \/ ClientConstruct \/ ClientPush

SpecPlace == InitPlace /\ [][NextPlace]_vars

\* ------------------------------------------------------------------------
\* The action log: DoubleLinkedList and BuildNode
\* ------------------------------------------------------------------------
\* An entry is [cls, child, parent, field_name, node_type, literal]; child and
\* parent are the _child and _parent attributes, indices into log, 0 for None.
RECURSIVE First(_, _)
RECURSIVE Last(_, _)
RECURSIVE ChainFrom(_, _)

\* BuildNode(), cls(field_name, node_type), cls(), cls(field_name, literal)
Entry(cls, field_name, node_type, literal) ==
  [cls |-> cls, child |-> 0, parent |-> 0, field_name |-> field_name,
   node_type |-> node_type, literal |-> literal]

\* the arguments clients pass to create and emplace
CreateArgs == {[field_name |-> "body", node_type |-> "Assign"],
               [field_name |-> "target", node_type |-> "Name"]}

EmplaceArgs == {[field_name |-> "id", literal |-> 0], [field_name |-> "id", literal |-> 1]}

SetParentKeeping(lg, self, value) ==
  IF lg[self].parent = value THEN [err |-> "", log |-> lg]
  ELSE LET linked == [lg EXCEPT ![self].parent = value]
       IN IF value = 0
          THEN [err |-> "AttributeError", log |-> linked]
          ELSE [err |-> "", log |-> [linked EXCEPT ![value].child = self]]

\* DoubleLinkedList.parent setter
SetParent(lg, self, value) ==
  IF lg[self].parent = value THEN [err |-> "", log |-> lg]
  ELSE LET released == IF lg[self].parent # 0
                       THEN [lg EXCEPT ![lg[self].parent].child = 0]
                       ELSE lg
           linked == [released EXCEPT ![self].parent = value]
       IN IF value = 0
          THEN [err |-> "AttributeError", log |-> linked]
          ELSE [err |-> "", log |-> [linked EXCEPT ![value].child = self]]

\* DoubleLinkedList.child setter
SetChild(lg, self, value) ==
  IF lg[self].child = value THEN [err |-> "", log |-> lg]
  ELSE LET released == IF lg[self].child # 0
                       THEN [lg EXCEPT ![lg[self].child].parent = 0]
                       ELSE lg
           linked == [released EXCEPT ![self].child = value]
       IN IF value = 0
          THEN [err |-> "AttributeError", log |-> linked]
          ELSE SetParent(linked, value, self)

\* DoubleLinkedList.first
First(lg, self) == IF lg[self].parent = 0 THEN self ELSE First(lg, lg[self].parent)

\* DoubleLinkedList.last
Last(lg, self) == IF lg[self].child = 0 THEN self ELSE Last(lg, lg[self].child)

\* the entries from `self` to the last one, following child
ChainFrom(lg, self) ==
  IF lg[self].child = 0 THEN <<self>> ELSE <<self>> \o ChainFrom(lg, lg[self].child)

Chain(lg, self) == ChainFrom(lg, First(lg, self))

\* DoubleLinkedList.append
AppendLink(lg, self, value) ==
  LET last == Last(lg, self)
      byParent == SetParent(lg, value, last)
  IN IF byParent.err # "" THEN byParent ELSE SetChild(byParent.log, last, value)

\* DoubleLinkedList.append, for a value just created (the last entry of lg)
AppendEntry(lg, self) == AppendLink(lg, self, Len(lg))

\* DoubleLinkedList.insert
Insert(lg, self, value) ==
  LET parents_new_child == First(lg, value)
      my_new_parent == Last(lg, value)
      byChild == SetChild(lg, lg[self].parent, parents_new_child)
  IN IF lg[self].parent = 0 THEN [err |-> "AttributeError", log |-> lg]
     ELSE IF byChild.err # "" THEN byChild
     ELSE SetParent(byChild.log, self, my_new_parent)

RECURSIVE Above(_, _, _)
RECURSIVE Below(_, _, _)
\* the entries reached from `self` in at most n steps along parent, along child
Above(lg, self, n) ==
  IF n = 0 \/ lg[self].parent = 0 THEN {}
  ELSE {lg[self].parent} \cup Above(lg, lg[self].parent, n - 1)

Below(lg, self, n) ==
  IF n = 0 \/ lg[self].child = 0 THEN {}
  ELSE {lg[self].child} \cup Below(lg, lg[self].child, n - 1)

\* first and last return on every entry: no entry is above or below itself
Acyclic(lg) ==
  \A e \in 1..Len(lg) : e \notin Above(lg, e, Len(lg)) /\ e \notin Below(lg, e, Len(lg))

\* DoubleLinkedList.__iter__: what it yields, and the exception that ends it
\* (no class of the module defines an attribute `next`)
Iterate(lg, self) == [yields |-> <<self>>, err |-> "AttributeError"]

\* the class attributes a BuildNode subclass has
ClassAttrs(cls) == {"tree_descent", "tree_ascend", "subclass_registry"}

\* the class attribute tree_descent
TreeDescent(cls) == cls = "CreateTreenodeAction"

\* what self.action(None, []) raises, by the class of self
ActionOnNone(cls) ==
  CASE cls = "BuildNode" -> "NotImplementedError"
    [] cls = "CommitTreeBuildNode" -> "IndexError"
    [] OTHER -> "AttributeError"

\* BuildNode.execute
Execute(lg, self) ==
  LET it == Iterate(lg, self)
      action_node == it.yields[1]
      depth == IF TreeDescent(lg[action_node].cls) THEN 1 ELSE 0
  IN IF "tree_ascent" \notin ClassAttrs(lg[action_node].cls)
     THEN [err |-> "AttributeError", visited |-> <<action_node>>, applied |-> <<>>, value |-> 0,
           node |-> NoneV, depth |-> depth]
     ELSE [err |-> ActionOnNone(lg[self].cls), visited |-> <<action_node>>,
           applied |-> <<>>, value |-> 0, node |-> NoneV, depth |-> depth]

EditSilent(lg, self, tag) ==
  LET it == Iterate(lg, First(lg, self))
  IN IF \E k \in 1..Len(it.yields) : it.yields[k] = tag THEN [err |-> "", value |-> tag]
     ELSE [err |-> "", value |-> 0]

\* BuildNode.edit; tag is node._created, 0 when the node has no such attribute
Edit(lg, self, tag) ==
  LET it == Iterate(lg, First(lg, self))
  IN IF tag = 0 THEN [err |-> "AssertionError", value |-> 0]
     ELSE IF \E k \in 1..Len(it.yields) : it.yields[k] = tag THEN [err |-> "", value |-> tag]
     ELSE [err |-> it.err, value |-> 0]

\* BuildNode.revert
Revert(lg, self, tag) ==
  LET found == Edit(lg, self, tag)
      cut == SetChild(lg, found.value, 0)
  IN IF found.err # "" THEN [err |-> found.err, log |-> lg, value |-> 0]
     ELSE IF found.value = 0 THEN [err |-> "AttributeError", log |-> lg, value |-> 0]
     ELSE IF cut.err # "" THEN [err |-> cut.err, log |-> cut.log, value |-> 0]
     ELSE [err |-> "", log |-> cut.log, value |-> First(cut.log, found.value)]

\* An astroid node as the recorder walks it: its class, and in flds its children
\* in get_children order, each wrapped with the field locate_child reports for it
Child(field_name, value) == [kind |-> "field", type |-> field_name, val |-> 0, flds |-> <<value>>]

RECURSIVE Recording(_, _)
\* The calls the recording loop of rebuild makes on the builder for the children
\* of `node` from position j on: create, the child's own recording and commit
\* for a node, emplace for a literal
Recording(node, j) ==
  IF j > Len(node.flds) THEN <<>>
  ELSE LET field_name == node.flds[j].type
           child == node.flds[j].flds[1]
       IN (IF IsAST(child)
           THEN <<[cls |-> "CreateTreenodeAction", field_name |-> field_name,
                   node_type |-> child.type, literal |-> 0]>>
                \o Recording(child, 1)
                \o <<[cls |-> "CommitTreeBuildNode", field_name |-> "", node_type |-> "",
                      literal |-> 0]>>
           ELSE <<[cls |-> "EmplaceLiteral", field_name |-> field_name, node_type |-> "",
                   literal |-> child.val]>>)
          \o Recording(node, j + 1)

\* a log is started from a plain BuildNode() or from a first creation entry
InitLog ==
  /\ log \in {<<Entry("BuildNode", "", "", 0)>>,
              <<Entry("CreateTreenodeAction", "body", "Assign", 0)>>}
  /\ created = NoTags
  /\ outcome = NoCall
  /\ kept = <<>>
  /\ tree = NoneV
  /\ xform = "identity"
  /\ pred = "any"
  /\ stop = "none"
  /\ ctxs = <<RootContext>>
  /\ context = 1
  /\ generator = 0
  /\ stack = <<>>
  /\ pc = "run"
  /\ result = NoneV
  /\ calls = <<>>
  /\ yielded = <<>>
  /\ finished = <<>>
  /\ other = <<>>
  /\ places = <<>>
  /\ pushes = <<>>

\* the record of a call: the entry it was made on, the astroid node passed (0: none)
\* with the tag the node had, the exception raised ("": none), the value returned
\* (0: none) and the chain of self before the call; depth is the local `depth`
\* of execute when it ended, or the depth of the context an action pushed on the
\* stack `frames` it was given
Called(op, self, tag, err, value, before, visited, applied) ==
  [op |-> op, err |-> err, self |-> self, node |-> 0, tag |-> tag, value |-> value,
   before |-> before, visited |-> visited, applied |-> applied, depth |-> 0,
   frames |-> <<>>]

\* the entries a client records and looks up through: the first entry of each
\* chain (create, emplace and commit return nothing to hold on to)
Handles(lg) == {e \in 1..Len(lg) : lg[e].parent = 0}

\* self.create(field_name, node_type)
LogCreate ==
  /\ Len(log) < MaxEntries
  /\ \E self \in Handles(log), a \in CreateArgs :
       LET new == Append(log, Entry("CreateTreenodeAction", a.field_name, a.node_type, 0))
           done == AppendEntry(new, self)
       IN /\ log' = done.log
          /\ outcome' = Called("create", self, 0, done.err, 0, Chain(log, self), <<>>, <<>>)
          /\ kept' = IF \E k \in 1..Len(kept) : kept[k] = self
                     THEN Append(kept, Len(new))
                     ELSE kept
  /\ UNCHANGED <<inputVars, travVars, rebuildVars, captureVars, placeVars, created>>

\* self.emplace(field_name, literal)
LogEmplace ==
  /\ Len(log) < MaxEntries
  /\ \E self \in Handles(log), a \in EmplaceArgs :
       LET new == Append(log, Entry("EmplaceLiteral", a.field_name, "", a.literal))
           done == AppendEntry(new, self)
       IN /\ log' = done.log
          /\ outcome' = Called("emplace", self, 0, done.err, 0, Chain(log, self), <<>>, <<>>)
          /\ kept' = IF \E k \in 1..Len(kept) : kept[k] = self
                     THEN Append(kept, Len(new))
                     ELSE kept
  /\ UNCHANGED <<inputVars, travVars, rebuildVars, captureVars, placeVars, created>>

\* self.commit()
LogCommit ==
  /\ Len(log) < MaxEntries
  /\ \E self \in Handles(log) :
       LET new == Append(log, Entry("CommitTreeBuildNode", "", "", 0))
           done == AppendEntry(new, self)
       IN /\ log' = done.log
          /\ outcome' = Called("commit", self, 0, done.err, 0, Chain(log, self), <<>>, <<>>)
          /\ kept' = IF \E k \in 1..Len(kept) : kept[k] = self
                     THEN Append(kept, Len(new))
                     ELSE kept
  /\ UNCHANGED <<inputVars, travVars, rebuildVars, captureVars, placeVars, created>>

\* the stacks an action is called with: empty, or holding the context of one
\* creation made on an empty stack
Stacks == {<<>>, <<[depth |-> 0]>>}

\* lines 287-290: the depth of the context a CreateTreenodeAction pushes
ContextDepth(frames) ==
  IF Len(frames) > 0 THEN frames[Len(frames)].depth + 1 ELSE 0

\* entry.action(node, stack) of a CreateTreenodeAction, called on a node that has
\* the entry's field: line 286 tags the node it is given, line 296 makes a new
\* node of the entry's class (the value returned), which gets no tag
LogCreateAction ==
  /\ Len(created) < MaxAstNodes
  /\ \E e \in 1..Len(log), n \in DOMAIN created, frames \in Stacks :
       /\ log[e].cls = "CreateTreenodeAction"
       /\ created' = Append([created EXCEPT ![n] = e], 0)
       /\ outcome' = [Called("action", e, created[n], "", Len(created) + 1, Chain(log, e),
                             <<>>, <<>>) EXCEPT !.node = n, !.frames = frames,
                                                !.depth = ContextDepth(frames)]
  /\ UNCHANGED <<inputVars, travVars, rebuildVars, captureVars, placeVars, log, kept>>

\* self.execute(); result is the astroid node it returns (None when it raises)
LogExecute ==
  /\ \E self \in 1..Len(log) :
       LET done == Execute(log, self)
       IN /\ outcome' = [Called("execute", self, 0, done.err, done.value, Chain(log, self),
                                done.visited, done.applied) EXCEPT !.depth = done.depth]
          /\ result' = done.node
  /\ UNCHANGED <<inputVars, travVars, calls, captureVars, placeVars, log, created, kept>>

\* self.edit(node)
LogEdit ==
  /\ \E self \in Handles(log), n \in DOMAIN created :
       LET done == Edit(log, self, created[n])
       IN outcome' = [Called("edit", self, created[n], done.err, done.value,
                             Chain(log, self), <<>>, <<>>) EXCEPT !.node = n]
  /\ UNCHANGED <<inputVars, travVars, rebuildVars, captureVars, placeVars, log, created, kept>>

\* self.revert(node)
LogRevert ==
  /\ \E self \in Handles(log), n \in DOMAIN created :
       LET done == Revert(log, self, created[n])
       IN /\ log' = done.log
          /\ outcome' = [Called("revert", self, created[n], done.err, done.value,
                                Chain(log, self), <<>>, <<>>) EXCEPT !.node = n]
          /\ kept' = IF \E k \in 1..Len(Chain(log, self)) : Chain(log, self)[k] = created[n]
                     THEN SubSeq(Chain(log, self), 1,
                                 CHOOSE k \in 1..Len(Chain(log, self)) :
                                   Chain(log, self)[k] = created[n])
                     ELSE kept
  /\ UNCHANGED <<inputVars, travVars, rebuildVars, captureVars, placeVars, created>>

NextLog ==
  LogCreate \/ LogEmplace \/ LogCommit \/ LogCreateAction \/ LogExecute \/ LogEdit \/ LogRevert

SpecLog == InitLog /\ [][NextLog]_vars

\* a client that opens frames and looks entries up by node, nothing else
NextLookup == LogCreate \/ LogCreateAction \/ LogEdit \/ LogRevert

SpecLookup == InitLog /\ [][NextLookup]_vars

\* ------------------------------------------------------------------------
\* A client linking DoubleLinkedList objects by hand
\* ------------------------------------------------------------------------
\* the state after MaxLinked calls of DoubleLinkedList()
InitLinks ==
  /\ log = [e \in 1..MaxLinked |-> Entry("DoubleLinkedList", "", "", 0)]
  /\ created = NoTags
  /\ outcome = NoCall
  /\ kept = <<>>
  /\ tree = NoneV
  /\ xform = "identity"
  /\ pred = "any"
  /\ stop = "none"
  /\ ctxs = <<RootContext>>
  /\ context = 1
  /\ generator = 0
  /\ stack = <<>>
  /\ pc = "run"
  /\ result = NoneV
  /\ calls = <<>>
  /\ yielded = <<>>
  /\ finished = <<>>
  /\ other = <<>>
  /\ places = <<>>
  /\ pushes = <<>>

\* the record of a link operation: `before` and `visited` are the chains of self
\* and of value before the call
Linked(op, self, value, err) ==
  Called(op, self, 0, err, value, Chain(log, self),
         IF value = 0 THEN <<>> ELSE Chain(log, value), <<>>)

\* self.child = value (value 0: None), the exception caught by the client; the
\* client builds no list that runs in a circle
LinkSetChild ==
  /\ \E self \in 1..Len(log), value \in 0..Len(log) :
       LET done == SetChild(log, self, value)
       IN /\ self # value
          /\ Acyclic(done.log)
          /\ log' = done.log
          /\ outcome' = Linked("child", self, value, done.err)
  /\ UNCHANGED <<inputVars, travVars, rebuildVars, captureVars, placeVars, created, kept>>

\* self.parent = value
LinkSetParent ==
  /\ \E self \in 1..Len(log), value \in 0..Len(log) :
       LET done == SetParent(log, self, value)
       IN /\ self # value
          /\ Acyclic(done.log)
          /\ log' = done.log
          /\ outcome' = Linked("parent", self, value, done.err)
  /\ UNCHANGED <<inputVars, travVars, rebuildVars, captureVars, placeVars, created, kept>>

\* self.append(value)
LinkAppend ==
  /\ \E self \in 1..Len(log), value \in 1..Len(log) :
       LET done == AppendLink(log, self, value)
       IN /\ self # value
          /\ Acyclic(done.log)
          /\ log' = done.log
          /\ outcome' = Linked("append", self, value, done.err)
  /\ UNCHANGED <<inputVars, travVars, rebuildVars, captureVars, placeVars, created, kept>>

\* self.insert(value)
LinkInsert ==
  /\ \E self \in 1..Len(log), value \in 1..Len(log) :
       LET done == Insert(log, self, value)
       IN /\ self # value
          /\ Acyclic(done.log)
          /\ log' = done.log
          /\ outcome' = Linked("insert", self, value, done.err)
  /\ UNCHANGED <<inputVars, travVars, rebuildVars, captureVars, placeVars, created, kept>>

NextLinks == LinkSetChild \/ LinkSetParent \/ LinkAppend \/ LinkInsert

SpecLinks == InitLinks /\ [][NextLinks]_vars

\* ------------------------------------------------------------------------
\* Properties of rebuild (checked under Spec)
\* ------------------------------------------------------------------------
ScenarioA == Module(<<Assign(<<Name(Lit(1), Store)>>, Constant(Lit(1)), NoneV)>>)

\* C1: rebuild with the identity transformer never fails and returns a tree with
\* the same node type and the same field values as the input at every position
C1_RoundTrip ==
  xform = "identity" =>
    /\ pc \in {"run", "done"}
    /\ pc = "done" => result = tree

C1_Witness ==
  /\ pc = "done"
  /\ xform = "identity"
  /\ tree \in {ScenarioA, Tuple(<<Constant(Lit(0)), Constant(NoneV), Constant(Lit(1))>>),
               Global(<<Lit(1), Lit(0), Lit(0)>>)}

CallsFor(p) == {k \in 1..Len(calls) : calls[k].path = p}

\* C2: when rebuild returns, the transformer has been invoked exactly once for
\* every node of the tree, the root included
C2_EveryNodeOnce ==
  pc = "done" => \A p \in NodePaths(tree) : Cardinality(CallsFor(p)) = 1

\* C3: at every transformer invocation for a node, every descendant has had its
\* invocation earlier, and the context passed holds, field by field and in the
\* original order, the literals of the node and the final node built from the
\* context the transformer returned for each child
C3_PostOrder ==
  \A k \in 1..Len(calls) :
    LET c == calls[k]
        orig == NodeAt(tree, c.path)
        was == ChildIterator(orig)
        got == ChildIterator(Construct(c.ctx))
    IN /\ \A p \in NodePathsFrom(orig, c.path) \ {c.path} :
            \E m \in 1..(k - 1) : calls[m].path = p
       /\ Len(got) = Len(was)
       /\ \A j \in 1..Len(was) :
            /\ got[j].fieldname = was[j].fieldname
            /\ IF IsAST(was[j].child)
               THEN \E m \in 1..(k - 1) : /\ calls[m].path = Append(c.path, j)
                                          /\ got[j].child = Construct(calls[m].ret)
               ELSE got[j].child = was[j].child

C3_Witness ==
  /\ xform = "zero"
  /\ \E k \in 1..Len(calls) :
       /\ NodeAt(tree, calls[k].path).type = "Assign"
       /\ \E m \in 1..(k - 1) : /\ IsPrefix(calls[k].path, calls[m].path)
                                /\ calls[m].ret # calls[m].ctx

\* the field of its parent that holds the node at path p, and the node's index in
\* that field of the input tree when the field is a list (-1 otherwise)
HoldingField(p) ==
  ChildIterator(NodeAt(tree, SubSeq(p, 1, Len(p) - 1)))[p[Len(p)]].fieldname

IndexInField(p) ==
  LET parent == NodeAt(tree, SubSeq(p, 1, Len(p) - 1))
      items == ChildIterator(parent)
  IN IF IsPyList(parent.flds[FieldIndex(parent.type, HoldingField(p))])
     THEN Cardinality({m \in 1..(p[Len(p)] - 1) : items[m].fieldname = HoldingField(p)})
     ELSE -1

\* C17: get_pos on the context of a node's parent returns the field holding the
\* node with, for a list field, the node's index in the original list and, for a
\* scalar field, None, whatever has been placed into the slots so far; for a node
\* the context's node does not hold it raises KeyError
C17_GetPosLocatesChild ==
  \A k \in 1..Len(calls) :
    /\ calls[k].pos = [err |-> "", fieldname |-> HoldingField(calls[k].path),
                       index |-> IndexInField(calls[k].path)]
    /\ calls[k].nopos.err = "KeyError"

\* the positions get_reverse_iterator is to yield for the context of the node at
\* path p: at every level, the children before the ancestor on the path
Elder(p) == UNION {{[level |-> i, pos |-> m] : m \in 1..(p[i] - 1)} : i \in 1..Len(p)}

\* C19: the reverse iterator of a node's context yields the children of the node's
\* parent that come before the node, nearest first, then in the same way the
\* children of each ancestor that come before the next ancestor on the path, inner
\* levels first; it yields nothing else and ends without error
C19_ReverseIteratorOrder ==
  \A k \in 1..Len(calls) :
    LET p == calls[k].path
        items == calls[k].rev.items
    IN /\ calls[k].rev.err = ""
       /\ Len(items) = Cardinality(Elder(p))
       /\ \A a \in 1..Len(items) :
            LET q == ctxs[items[a].context].path
            IN /\ Len(q) < Len(p)
               /\ q = SubSeq(p, 1, Len(q))
               /\ items[a].pos \in 1..(p[Len(q) + 1] - 1)
               /\ items[a].child = ChildIterator(NodeAt(tree, q))[items[a].pos].child
               /\ \A b \in (a + 1)..Len(items) :
                    \/ Len(ctxs[items[b].context].path) < Len(q)
                    \/ /\ items[b].context = items[a].context
                       /\ items[b].pos < items[a].pos

C19_Witness ==
  /\ pc = "done"
  /\ \E k \in 1..Len(calls) :
       /\ Len(calls[k].rev.items) >= 2
       /\ calls[k].rev.items[1].context # calls[k].rev.items[2].context
  /\ \E k \in 1..Len(calls) :
       /\ Len(calls[k].rev.items) >= 2
       /\ calls[k].rev.items[1].context = calls[k].rev.items[2].context
       /\ calls[k].rev.items[1].child # calls[k].rev.items[2].child

\* C20: when rebuild returns, the node at every position of the result is
\* construct() of the context the transformer returned for the node at that
\* position of the input, the root included; with the transformer that sets the
\* value of every Constant to 0 no Constant of the result has another value
C20_TransformerReflectedEverywhere ==
  pc = "done" =>
    /\ \A p \in NodePaths(tree) :
         \E k \in 1..Len(calls) : /\ calls[k].path = p
                                  /\ NodeAt(result, p) = Construct(calls[k].ret)
    /\ xform = "zero" =>
         \A p \in NodePaths(result) :
           NodeAt(result, p).type = "Constant" => NodeAt(result, p).flds[1] = Lit(0)

\* ------------------------------------------------------------------------
\* Properties of capture (checked under SpecCapture)
\* ------------------------------------------------------------------------
YieldedNodes == [k \in 1..Len(yielded) |-> yielded[k].child]

Satisfies(p) == Predicate(pred, RootContext, NodeAt(tree, p))

Stopping(p) == StopHit(stop, RootContext, NodeAt(tree, p))

\* C4: without stop, capture yields exactly the nodes of the tree that satisfy
\* the predicate, the root included, each once and in post-order
C4_AllMatchesInPostOrder ==
  (pc = "done" /\ stop = "none") => YieldedNodes = SelectSeq(PostOrder(tree), Satisfies)

\* C5: once a finished node makes stop true the traversal is over: that node is
\* the last one finished, it is not yielded, and everything yielded finished before it
C5_StopHalts ==
  \A k \in 1..Len(finished) :
    Stopping(finished[k]) =>
      /\ pc = "done"
      /\ k = Len(finished)
      /\ \A y \in 1..Len(yielded) : \E m \in 1..(k - 1) : yielded[y].child = finished[m]

C5_Witness ==
  /\ pc = "done"
  /\ pred = "any"
  /\ Len(yielded) >= 2
  /\ Len(finished) >= 1
  /\ Stopping(finished[Len(finished)])
  /\ Len(finished) + 1 < Cardinality(NodePaths(tree))

\* C6 as stated: every node below the root that satisfies the predicate and has no
\* stopping node at or below it is yielded, whatever was finished before it
C6_BranchesIndependent ==
  pc = "done" =>
    \A p \in NodePaths(tree) \ {<<>>} :
      (Satisfies(p) /\ \A q \in NodePathsFrom(NodeAt(tree, p), p) : ~Stopping(q))
        => \E y \in 1..Len(yielded) : yielded[y].child = p

FirstStop(po) ==
  IF \E k \in 1..Len(po) : Stopping(po[k])
  THEN CHOOSE k \in 1..Len(po) : Stopping(po[k]) /\ \A m \in 1..(k - 1) : ~Stopping(po[m])
  ELSE Len(po) + 1

\* C6 amended: the traversal as a whole ends at the first node below the root, in
\* post-order, that satisfies stop; what is yielded is exactly the nodes below the
\* root satisfying the predicate that finish before it, in post-order
C6_StopCutsWholeTraversal ==
  pc = "done" =>
    LET po == PostOrderBelowRoot(tree)
    IN YieldedNodes = SelectSeq(SubSeq(po, 1, FirstStop(po) - 1), Satisfies)

C6_Witness ==
  /\ pc = "done"
  /\ Len(yielded) >= 1
  /\ \E p \in NodePaths(tree) \ {<<>>} :
       /\ Satisfies(p)
       /\ \A q \in NodePathsFrom(NodeAt(tree, p), p) : ~Stopping(q)
       /\ \A k \in 1..Len(finished) : ~IsPrefix(p, finished[k])
       /\ \A y \in 1..Len(yielded) : yielded[y].child # p

\* C18: for every (context, node) pair capture yields, context.get_pos(node) ends
\* without error and names the field of the parent that holds node, be it a
\* scalar or a list field
C18_YieldedContextLocatesNode ==
  \A y \in 1..Len(yielded) :
    /\ yielded[y].pos.err = ""
    /\ yielded[y].pos.fieldname = HoldingField(yielded[y].child)

\* ------------------------------------------------------------------------
\* Properties of place (checked under SpecPlace)
\* ------------------------------------------------------------------------
ScalarField(f) == f \notin ListFields(tree.type)

Slot(f) == ctxs[context].slots[FieldIndex(tree.type, f)]

\* place k found the scalar slot empty and put a value there that is not a list
Fills(k) ==
  /\ ScalarField(places[k].fieldname)
  /\ places[k].before = NoneV
  /\ places[k].err = ""
  /\ ~IsPyList(places[k].value)

PlacedInto(f) ==
  LET into == SelectSeq(places, LAMBDA c : c.fieldname = f)
  IN [k \in 1..Len(into) |-> into[k].value]

\* C8: a list slot, and the field of a node constructed from the context, is the
\* sequence of the values placed into it, in placement order, and no such place fails
C8_ListKeepsPlacementOrder ==
  \A i \in 1..Len(Fields(tree.type)) :
    Fields(tree.type)[i] \in ListFields(tree.type) =>
      /\ ctxs[context].slots[i] = ListV(PlacedInto(Fields(tree.type)[i]))
      /\ Construct(ctxs[context]).flds[i] = ListV(PlacedInto(Fields(tree.type)[i]))
      /\ result.kind = "node" => result.flds[i] = ListV(PlacedInto(Fields(tree.type)[i]))
      /\ \A k \in 1..Len(places) : places[k].fieldname = Fields(tree.type)[i] => places[k].err = ""

C8_Witness ==
  /\ result.kind = "node"
  /\ \E f \in ListFields(tree.type) :
       /\ Len(PlacedInto(f)) >= 3
       /\ PlacedInto(f)[1] = PlacedInto(f)[3]
       /\ PlacedInto(f)[1] # PlacedInto(f)[2]
       /\ result.flds[FieldIndex(tree.type, f)] = ListV(PlacedInto(f))

\* C16: push returns a context only for a node held in a declared field of the
\* original node of the context it is called on, and fails for any other node
C16_PushOnlyChildren ==
  \A c \in 1..Len(ctxs) :
    ctxs[c].parent >= 2 =>
      LET parent == ctxs[ctxs[c].parent]
      IN \E j \in 1..Len(ChildIterator(parent.node)) :
           /\ ctxs[c].path = Append(parent.path, j)
           /\ ChildIterator(parent.node)[j].child = ctxs[c].node

\* ------------------------------------------------------------------------
\* Properties of the action log (checked under SpecLog)
\* ------------------------------------------------------------------------
InSeq(x, sq) == \E k \in 1..Len(sq) : sq[k] = x

PrefixThrough(sq, x) == SubSeq(sq, 1, CHOOSE k \in 1..Len(sq) : sq[k] = x)

\* C9: revert(node), for a node whose creation entry is an entry of the log, ends
\* without error; the log is then the old chain up to and including that entry, in
\* the old order, the entry is last, and the first entry of the chain is returned
C9_RevertCutsAfterEntry ==
  (outcome.op = "revert" /\ InSeq(outcome.tag, outcome.before)) =>
    /\ outcome.err = ""
    /\ log[outcome.tag].child = 0
    /\ Chain(log, outcome.tag) = PrefixThrough(outcome.before, outcome.tag)
    /\ outcome.value = outcome.before[1]

\* C10: execute() ends without error having visited the whole chain from first to
\* last, in chain order, and applied the effect of every entry visited exactly once
C10_ExecuteReplaysChain ==
  outcome.op = "execute" =>
    /\ outcome.err = ""
    /\ outcome.visited = outcome.before
    /\ outcome.applied = outcome.before

\* the trees whose recording uses the arguments of CreateArgs and EmplaceArgs
LogTrees ==
  {Node("Module", <<Child("body", Node("Assign", <<>>))>>)}
  \cup {Node("Assign", <<Child("target", Node("Name", <<Child("id", Lit(i))>>))>>) : i \in LitVals}

\* the recorded calls a chain of entries stands for (the BuildNode() head is no call)
Actions(lg, chain) ==
  LET calls_ == SelectSeq(chain, LAMBDA e : lg[e].cls # "BuildNode")
  IN [k \in 1..Len(calls_) |-> [cls |-> lg[calls_[k]].cls, field_name |-> lg[calls_[k]].field_name,
                                node_type |-> lg[calls_[k]].node_type,
                                literal |-> lg[calls_[k]].literal]]

\* C11: execute() on a log that is the recording of the depth-first construction
\* of a tree T ends without error and returns a tree equal to T
C11_ReplayEqualsRecorded ==
  \A T \in LogTrees :
    (outcome.op = "execute" /\ outcome.self = outcome.before[1]
       /\ Actions(log, outcome.before) = Recording(T, 1))
      => /\ outcome.err = ""
         /\ result = T

\* C12: after revert(node) has located node's creation entry, the log is the old
\* chain up to that entry followed by the entries create, emplace and commit have
\* appended since, and execute() on it ends without error, visits exactly those
\* entries and returns the tree they record
C12_RevertThenAppendAndReplay ==
  kept # <<>> =>
    /\ Chain(log, kept[1]) = kept
    /\ (outcome.op = "execute" /\ outcome.self = kept[1]) =>
         /\ outcome.err = ""
         /\ outcome.visited = kept
         /\ \A T \in LogTrees : Actions(log, kept) = Recording(T, 1) => result = T

\* C13: the action of a CreateChild entry tags the node it creates with the entry,
\* no tag a node already has is overwritten, and edit(node) of the created node
\* returns that entry wherever it lies in the chain
C13_CreateTagsCreatedNode ==
  outcome.op = "action" =>
    /\ created[outcome.value] = outcome.self
    /\ created[outcome.node] = outcome.tag
    /\ Edit(log, outcome.self, created[outcome.value]) = [err |-> "", value |-> outcome.self]

\* the number of frames the recorded calls of a chain leave open
OpenFrames(lg, chain) ==
  Cardinality({k \in 1..Len(chain) : lg[chain[k]].cls = "CreateTreenodeAction"})
  - Cardinality({k \in 1..Len(chain) : lg[chain[k]].cls = "CommitTreeBuildNode"})

\* C14: commit() called when as many commits as creates have been recorded raises
\* an error at that call and appends no entry to the log
C14_UnbalancedCommitRejected ==
  (outcome.op = "commit" /\ OpenFrames(log, outcome.before) = 0) =>
    /\ outcome.err # ""
    /\ Chain(log, outcome.self) = outcome.before

\* C15: edit(node) raises when node has no creation tag, and revert(node) raises
\* when node's creation entry is not an entry of the log revert is called on; in
\* neither case is anything returned
C15_LookupFailsLoudly ==
  /\ (outcome.op = "edit" /\ outcome.tag = 0) =>
       (outcome.err # "" /\ outcome.value = 0)
  /\ (outcome.op = "revert" /\ outcome.tag # 0 /\ ~InSeq(outcome.tag, outcome.before)) =>
       (outcome.err # "" /\ outcome.value = 0)

C15_Witness ==
  /\ outcome.op = "revert"
  /\ outcome.tag # 0
  /\ ~InSeq(outcome.tag, outcome.before)
  /\ Len(outcome.before) >= 2
  /\ outcome.err = "AttributeError"

\* ------------------------------------------------------------------------
\* Properties of construct (checked under Spec: rebuild calls construct() on
\* every context below the root twice, around the transformer)
\* ------------------------------------------------------------------------
\* C21: construct() does not consume or clear the slots of its context: the slots
\* after each of the two calls equal the slots before it, the node returned has
\* the type of the context's node, and when the transformer placed nothing in
\* between, the second call returns a node of the same type with equal field
\* values as the first
C21_ConstructKeepsSlots ==
  \A k \in 1..Len(calls) :
    /\ calls[k].ctx.slots = calls[k].before.slots
    /\ calls[k].after.slots = calls[k].ret.slots
    /\ calls[k].node.type = calls[k].before.node.type
    /\ calls[k].ret = calls[k].ctx =>
         /\ calls[k].node_update.type = calls[k].node.type
         /\ calls[k].node_update.flds = calls[k].node.flds
         /\ calls[k].after.slots = calls[k].before.slots

\* an Assign with a target and a value was constructed twice with no place in
\* between
C21_Witness ==
  \E k \in 1..Len(calls) :
    /\ calls[k].ret = calls[k].ctx
    /\ calls[k].node.type = "Assign"
    /\ calls[k].node.flds[1].flds # <<>>
    /\ calls[k].node.flds[2] # NoneV
    /\ calls[k].node_update = calls[k].node
    /\ calls[k].after.slots = calls[k].node.flds

\* ------------------------------------------------------------------------
\* Frame of rebuild (checked under Spec)
\* ------------------------------------------------------------------------
\* C22: rebuild never mutates the input: at every step the node every context
\* refers to is the node of the input tree at its path, with the type, the field
\* values and the list contents it had before the call; and every node of the
\* result is the value of a construct() call of this rebuild, a new object
C22_InputUntouched ==
  /\ LET paths == NodePaths(tree)
     IN  \A c \in 2..Len(ctxs) : /\ ctxs[c].path \in paths
                                 /\ ctxs[c].node = NodeAt(tree, ctxs[c].path)
  /\ \A k \in 1..Len(calls) : /\ calls[k].before.node = NodeAt(tree, calls[k].path)
                              /\ calls[k].ret.node = NodeAt(tree, calls[k].path)
  /\ pc = "done" =>
       /\ result = Construct(ctxs[2])
       /\ \A p \in NodePaths(result) \ {<<>>} :
            \E k \in 1..Len(calls) : /\ calls[k].path = p
                                     /\ NodeAt(result, p) = calls[k].node_update

\* a rebuild that changed a node below a list is over
C22_Witness ==
  /\ pc = "done"
  /\ xform = "zero"
  /\ result # tree
  /\ tree.type = "Module"
  /\ Len(tree.flds[1].flds) >= 2
  /\ Len(calls) >= 3

\* ------------------------------------------------------------------------
\* Properties of a context driven by its client (checked under SpecPlace)
\* ------------------------------------------------------------------------
\* the scalar fields of the context's node that must be filled
MandatoryScalars ==
  {Fields(tree.type)[i] : i \in 1..Len(Fields(tree.type))}
    \ (ListFields(tree.type) \cup OptionalFields(tree.type))

\* C23: construct() returns a node only when every mandatory scalar slot has been
\* filled by a place; on a context with such a slot never filled it fails
C23_ConstructNeedsMandatorySlots ==
  result.kind = "node" =>
    \A f \in MandatoryScalars :
      \E k \in 1..Len(places) : places[k].fieldname = f /\ places[k].err = ""

\* C24: the lookup of the context class for a node type that was never registered
\* fails with KeyError, so push of such a node raises and returns no context;
\* push of a node of a registered type returns a context of the class registered
\* for exactly that type: it refers to a node of that type and has that class's
\* fields as slots
C24_LookupByExactType ==
  \A k \in 1..Len(pushes) :
    IF pushes[k].type \in Registry
    THEN /\ pushes[k].err = ""
         /\ pushes[k].ctx \in 3..Len(ctxs)
         /\ ctxs[pushes[k].ctx].node.type = pushes[k].type
         /\ Len(ctxs[pushes[k].ctx].slots) = Len(Fields(pushes[k].type))
    ELSE /\ pushes[k].err = "KeyError"
         /\ pushes[k].ctx = 0

\* a node of an unregistered and a node of a registered type have been pushed
C24_Witness ==
  /\ \E k \in 1..Len(pushes) : pushes[k].type = "TypeIgnore" /\ pushes[k].err = "KeyError"
  /\ \E k \in 1..Len(pushes) : pushes[k].type = "Constant" /\ pushes[k].err = ""
  /\ Len(ctxs) = 3

\* ------------------------------------------------------------------------
\* Properties of the linked list (checked under SpecLinks)
\* ------------------------------------------------------------------------
\* the links of lg are mutually consistent
Consistent(lg) ==
  \A x \in 1..Len(lg) :
    /\ lg[x].child # 0 => lg[lg[x].child].parent = x
    /\ lg[x].parent # 0 => lg[lg[x].parent].child = x

\* C25: link assignment on a list whose links are in step keeps both directions
\* in step. After x.child = y, x.child is y, y.parent is x and the child x had
\* before is released (its parent is None); after x.parent = y, x.parent is y,
\* y.child is x and the parent x had before is released (its child is None).
\* These are the three steps of a.child = b, a.child = c, c.parent = b
C25_LinkAssignment ==
  [][\A x, y \in 1..Len(log) : Consistent(log) =>
       /\ outcome'.self = x /\ outcome'.value = y /\ outcome'.op = "child" =>
            /\ outcome'.err = ""
            /\ log'[x].child = y
            /\ log'[y].parent = x
            /\ log[x].child \notin {0, y} => log'[log[x].child].parent = 0
       /\ outcome'.self = x /\ outcome'.value = y /\ outcome'.op = "parent" =>
            /\ outcome'.err = ""
            /\ log'[x].parent = y
            /\ log'[y].child = x
            /\ log[x].parent \notin {0, y} => log'[log[x].parent].child = 0]_vars

\* c.parent = b was assigned when c was the child of a and b was on its own:
\* now b.child is c and a has no child
C25_Witness ==
  /\ outcome.op = "parent"
  /\ outcome.self = 3
  /\ outcome.value = 2
  /\ outcome.before = <<1, 3>>
  /\ outcome.visited = <<2>>
  /\ log[2].child = 3
  /\ log[3].parent = 2
  /\ log[1].child = 0
  /\ log[2].parent = 0

\* C28: after any sequence of link operations the links are mutually consistent:
\* if x.child is y then y.parent is x, and if x.parent is p then p.child is x
C28_LinksConsistent == Consistent(log)

\* ------------------------------------------------------------------------
\* Depth bookkeeping of the action log (checked under SpecLog)
\* ------------------------------------------------------------------------
\* C27: execute replays the chain tracking the depth, which after the entries
\* visited is the number of CreateTreenodeAction entries minus the number of
\* CommitTreeBuildNode entries among them; and the depth stored in the context a
\* creation pushes agrees with it: one more than the depth of the enclosing
\* frame, that is the number of frames open once it is pushed
C27_DepthBookkeeping ==
  /\ outcome.op = "execute" =>
       /\ outcome.err = ""
       /\ outcome.depth = OpenFrames(log, outcome.visited)
  /\ outcome.op = "action" => outcome.depth = Len(outcome.frames) + 1

\* ------------------------------------------------------------------------
\* The explicit stack of rebuild (checked under Spec)
\* ------------------------------------------------------------------------
\* C29: at every step of rebuild the stack mirrors the ancestor chain of the
\* current context: the top frame holds the parent context of the current
\* context and the field under which the current node sits, each deeper frame
\* holds the parent of the context in the frame above it, the height of the
\* stack is the depth of the current node below the root, and the stack is empty
\* exactly when the current context is the root's
C29_StackMirrorsAncestors ==
  LET ancestors == AncestorIterator(ctxs, context)
      above(k) == IF k = Len(stack) THEN context ELSE stack[k + 1].context
  IN /\ Len(ancestors) = Len(stack) + 2
     /\ ancestors[Len(ancestors)] = 1
     /\ \A k \in 1..Len(stack) :
          /\ stack[k].context = ancestors[Len(stack) + 2 - k]
          /\ stack[k].context = ctxs[above(k)].parent
          /\ stack[k].child = ctxs[above(k)].path
          /\ stack[k].fieldname = HoldingField(ctxs[above(k)].path)
     /\ Len(stack) = Len(ctxs[context].path)
     /\ stack = <<>> <=> context = 2
     /\ stack = <<>> <=> ctxs[context].path = <<>>

\* rebuild is three levels below the root, under a list field and a scalar field
C29_Witness ==
  /\ pc = "run"
  /\ Len(stack) = 3
  /\ stack[1].fieldname = "body"
  /\ stack[2].fieldname = "value"
  /\ stack[3].fieldname = "elts"
  /\ AncestorIterator(ctxs, context) = <<context, stack[3].context, stack[2].context, 2, 1>>

\* C30: get_reverse_iterator ends normally on every context: on each context the
\* ancestor iterator yields to a transformer, the context of the tree's root and
\* the parentless root context included, it yields finitely many items and raises
\* nothing, with no item at all on the last two
C30_ReverseIteratorEndsNormally ==
  \A k \in 1..Len(calls) :
    LET upward == calls[k].upward
    IN /\ \A j \in 1..Len(upward) : upward[j].err = ""
       /\ upward[Len(upward)].items = <<>>
       /\ upward[Len(upward) - 1].items = <<>>

\* ------------------------------------------------------------------------
\* Properties of overlapping traversals (checked under SpecOverlap)
\* ------------------------------------------------------------------------
RECURSIVE RebuiltFrom(_, _, _)
\* what rebuild run alone returns for `node`: every node below the top rebuilt,
\* handed to the transformer and constructed again, the top only constructed
RebuiltFrom(node, x, top) ==
  LET again(v) == IF IsAST(v) THEN RebuiltFrom(v, x, FALSE) ELSE v
      slots == [i \in 1..Len(node.flds) |->
                  IF IsPyList(node.flds[i])
                  THEN ListV([j \in 1..Len(node.flds[i].flds) |-> again(node.flds[i].flds[j])])
                  ELSE again(node.flds[i])]
      ctx == [node |-> node, path |-> <<>>, parent |-> 0, slots |-> slots]
  IN IF top THEN Construct(ctx) ELSE Construct(Transform(x, ctx, Construct(ctx)))

FirstStopWith(st, po) ==
  IF \E k \in 1..Len(po) : StopHit(st, RootContext, NodeAt(tree, po[k]))
  THEN CHOOSE k \in 1..Len(po) :
         /\ StopHit(st, RootContext, NodeAt(tree, po[k]))
         /\ \A m \in 1..(k - 1) : ~StopHit(st, RootContext, NodeAt(tree, po[m]))
  ELSE Len(po) + 1

\* what capture run alone yields with predicate p and stop function st
YieldedAlone(p, st) ==
  LET po == PostOrderBelowRoot(tree)
  IN SelectSeq(SubSeq(po, 1, FirstStopWith(st, po) - 1),
               LAMBDA q : Predicate(p, RootContext, NodeAt(tree, q)))

\* the parentless context the chain of context c ends in
Sentinel(c) == AncestorIterator(ctxs, c)[Len(AncestorIterator(ctxs, c))]

\* C26: overlapping traversals do not interfere. However the steps of a rebuild
\* and of a capture iteration over the same tree are interleaved, the rebuild
\* returns what it returns when run alone, the capture has yielded, once it is
\* exhausted, exactly the sequence it yields when run alone, every context it
\* yields belongs to its own chain, refers to the untouched input node and has
\* the slots nobody has placed into, and no call ends in an exception
C26_OverlapEqualsAlone ==
  /\ pc \in {"run", "done"}
  /\ pc = "done" => result = RebuiltFrom(tree, xform, TRUE)
  /\ Sentinel(context) = 1
  /\ \A t \in 1..Len(other) :
       LET o == other[t]
           nodes == [k \in 1..Len(o.yielded) |-> o.yielded[k].child]
       IN /\ o.pc \in {"run", "done"}
          /\ o.pc = "done" => nodes = YieldedAlone(o.pred, o.stop)
          /\ Sentinel(o.context) = 2 * t + 1
          /\ \A k \in 1..Len(o.yielded) :
               LET c == ctxs[o.yielded[k].context]
               IN /\ Sentinel(o.yielded[k].context) = 2 * t + 1
                  /\ Append(c.path, nodes[k][Len(nodes[k])]) = nodes[k]
                  /\ c.node = NodeAt(tree, c.path)
                  /\ c.slots = InitSlots(c.node.type)

\* both calls are over, their descents were interleaved (a context of the
\* rebuild was made between two contexts of the capture), the rebuild changed a
\* node and the capture yielded a context below the root's
C26_Witness ==
  /\ pc = "done"
  /\ other[1].pc = "done"
  /\ result # tree
  /\ \E k \in 1..Len(other[1].yielded) : other[1].yielded[k].context > 4
  /\ \E a, b, c \in 5..Len(ctxs) :
       a < b /\ b < c /\ Sentinel(a) = 3 /\ Sentinel(b) = 1 /\ Sentinel(c) = 3
====
